---- MODULE Spec2Model ----
(***************************************************************************)
(* Model of SKILLS/_TEMPLATE/scripts/example-helper.py: a command-line     *)
(* helper that validates an input path, reads it as text, prefixes the     *)
(* text with "Processed: " and emits the result to a file or to stdout.    *)
(*                                                                         *)
(* File contents are sequences of characters.  The literal "Processed: "   *)
(* is carried as one element, every other element is one character.       *)
(* stdout and stderr are sequences of printed lines, each line being the   *)
(* sequence of pieces of the f-string that print() received.               *)
(* os_linesep is the platform's line separator: "\n" or "\r\n".            *)
(***************************************************************************)
EXTENDS Integers, Sequences, FiniteSets, TLC

VARIABLES fs, diskFull, os_linesep, pc, argv, args, result, stdout, stderr, status,
          exitVia, runs, fs0, fsPrev, started, opened, wrote

vars == <<fs, diskFull, os_linesep, pc, argv, args, result, stdout, stderr, status,
          exitVia, runs, fs0, fsPrev, started, opened, wrote>>

----------------------------------------------------------------------------
(* Bounds *)

MaxLen == 2
MaxRuns == 2

----------------------------------------------------------------------------
(* Values *)

Paths == {"p1", "p2"}
None == "None"
CR == "\r"
LF == "\n"
Alphabet == {"a", CR, LF}
Prefix == "Processed: "
LineSeparators == {<<LF>>, <<CR, LF>>}

Contents == UNION {[1..n -> Alphabet] : n \in 0..MaxLen}

Missing == [kind |-> "missing"]
Dir == [kind |-> "dir"]
File(c, acc) == [kind |-> "file", content |-> c, accessible |-> acc]
Nodes == {Missing, Dir} \cup {File(c, acc) : c \in Contents, acc \in BOOLEAN}

CommandLines ==
    [input : Paths \cup {None}, output : Paths \cup {None},
     verbose : BOOLEAN, help : BOOLEAN]
NoArgs == [input |-> None, output |-> None, verbose |-> FALSE]

Contains(lines, line) == \E i \in 1..Len(lines) : lines[i] = line

----------------------------------------------------------------------------
(* Text-mode conversions done by Path.read_text / Path.write_text *)

RECURSIVE TranslateNewlines(_)
TranslateNewlines(s) ==
    IF s = <<>> THEN <<>>
    ELSE IF Head(s) = CR
         THEN <<LF>> \o TranslateNewlines(
                  IF Len(s) >= 2 /\ s[2] = LF THEN Tail(Tail(s)) ELSE Tail(s))
         ELSE <<Head(s)>> \o TranslateNewlines(Tail(s))

RECURSIVE EncodeNewlines(_, _)
EncodeNewlines(s, sep) ==
    IF s = <<>> THEN <<>>
    ELSE (IF Head(s) = LF THEN sep ELSE <<Head(s)>>)
         \o EncodeNewlines(Tail(s), sep)

----------------------------------------------------------------------------
(* Library calls on a file system f *)

existsAlways(f, p) == TRUE

exists(f, p) == f[p].kind # "missing"

read_text_raw(f, p) ==
    IF f[p].kind = "missing"
    THEN [ok |-> FALSE, text |-> <<>>, err |-> <<"FileNotFoundError", p>>]
    ELSE IF f[p].kind = "dir"
    THEN [ok |-> FALSE, text |-> <<>>, err |-> <<"IsADirectoryError", p>>]
    ELSE IF ~f[p].accessible
    THEN [ok |-> FALSE, text |-> <<>>, err |-> <<"PermissionError", p>>]
    ELSE [ok |-> TRUE, text |-> f[p].content, err |-> <<>>]

read_text(f, p) ==
    IF f[p].kind = "missing"
    THEN [ok |-> FALSE, text |-> <<>>, err |-> <<"FileNotFoundError", p>>]
    ELSE IF f[p].kind = "dir"
    THEN [ok |-> FALSE, text |-> <<>>, err |-> <<"IsADirectoryError", p>>]
    ELSE IF ~f[p].accessible
    THEN [ok |-> FALSE, text |-> <<>>, err |-> <<"PermissionError", p>>]
    ELSE [ok |-> TRUE, text |-> TranslateNewlines(f[p].content), err |-> <<>>]

write_text_append(f, full, sep, p, data) ==
    IF f[p].kind = "dir"
    THEN [ok |-> FALSE, fs |-> f, opened |-> FALSE,
          err |-> <<"IsADirectoryError", p>>]
    ELSE IF f[p].kind = "file" /\ ~f[p].accessible
    THEN [ok |-> FALSE, fs |-> f, opened |-> FALSE,
          err |-> <<"PermissionError", p>>]
    ELSE IF full /\ data # <<>>
    THEN [ok |-> FALSE, fs |-> f, opened |-> TRUE,
          err |-> <<"OSError", "No space left on device">>]
    ELSE [ok |-> TRUE,
          fs |-> [f EXCEPT ![p] = File(
                    (IF f[p].kind = "file" THEN f[p].content ELSE <<>>)
                    \o EncodeNewlines(data, sep), TRUE)],
          opened |-> TRUE, err |-> <<>>]

write_text_partial(f, full, sep, p, data) ==
    IF f[p].kind = "dir"
    THEN [ok |-> FALSE, fs |-> f, opened |-> FALSE,
          err |-> <<"IsADirectoryError", p>>]
    ELSE IF f[p].kind = "file" /\ ~f[p].accessible
    THEN [ok |-> FALSE, fs |-> f, opened |-> FALSE,
          err |-> <<"PermissionError", p>>]
    ELSE IF full /\ data # <<>>
    THEN [ok |-> FALSE, fs |-> [f EXCEPT ![p] = File(<<Head(data)>>, TRUE)],
          opened |-> TRUE,
          err |-> <<"OSError", "No space left on device">>]
    ELSE [ok |-> TRUE,
          fs |-> [f EXCEPT ![p] = File(EncodeNewlines(data, sep), TRUE)],
          opened |-> TRUE, err |-> <<>>]

(* open(mode='w') fails on a directory or without permission and leaves   *)
(* the file system alone; otherwise it creates or truncates the file, and *)
(* the data reaches the file unless the device has no space left.         *)
write_text(f, full, sep, p, data) ==
    IF f[p].kind = "dir"
    THEN [ok |-> FALSE, fs |-> f, opened |-> FALSE,
          err |-> <<"IsADirectoryError", p>>]
    ELSE IF f[p].kind = "file" /\ ~f[p].accessible
    THEN [ok |-> FALSE, fs |-> f, opened |-> FALSE,
          err |-> <<"PermissionError", p>>]
    ELSE IF full /\ data # <<>>
    THEN [ok |-> FALSE, fs |-> [f EXCEPT ![p] = File(<<>>, TRUE)],
          opened |-> TRUE,
          err |-> <<"OSError", "No space left on device">>]
    ELSE [ok |-> TRUE,
          fs |-> [f EXCEPT ![p] = File(EncodeNewlines(data, sep), TRUE)],
          opened |-> TRUE, err |-> <<>>]

----------------------------------------------------------------------------
(* The script's own functions and messages *)

process_file_noprefix(f, file_path) ==
    LET content == read_text(f, file_path)
    IN  [ok |-> content.ok, value |-> content.text, err |-> content.err]

process_file(f, file_path) ==
    LET content == read_text(f, file_path)
    IN  [ok |-> content.ok, value |-> <<Prefix>> \o content.text,
         err |-> content.err]

NotFoundMsg(p) == <<"Error: ", "Input file '", p, "' not found">>
ProcessingMsg(p) == <<"Processing ", p, "...">>
WroteMsg(p) == <<"Wrote output to ", p>>
UsageMsg == <<"usage: ", "error: the following arguments are required: input_file">>
HelpMsg == <<"usage: ", "show this help message and exit">>

HandlerReraise(e) ==
    [status |-> 1, via |-> "exception", stderr |-> <<<<"Traceback">> \o e>>]

(* except Exception as e: print(f"Error: {e}", file=sys.stderr); return 1 *)
Handler(e) ==
    [status |-> 1, via |-> "return", stderr |-> <<<<"Error: ">> \o e>>]

----------------------------------------------------------------------------
(* State machine *)

Init ==
    /\ fs \in [Paths -> Nodes]
    /\ diskFull \in BOOLEAN
    /\ os_linesep \in LineSeparators
    /\ pc = "idle"
    /\ argv = [input |-> None, output |-> None, verbose |-> FALSE,
               help |-> FALSE]
    /\ args = NoArgs
    /\ result = <<>>
    /\ stdout = <<>>
    /\ stderr = <<>>
    /\ status = 0
    /\ exitVia = "none"
    /\ runs = 0
    /\ fs0 = fs
    /\ fsPrev = fs
    /\ started = FALSE
    /\ opened = FALSE
    /\ wrote = FALSE

(* A process starts: fresh streams, then parser.parse_args().  -h prints  *)
(* the help and exits 0, a missing input_file exits 2 with a usage error, *)
(* both by SystemExit raised before the try block.                        *)
ParseArgs(cmd) ==
    /\ argv' = cmd
    /\ fs0' = fs
    /\ result' = <<>>
    /\ started' = FALSE
    /\ opened' = FALSE
    /\ wrote' = FALSE
    /\ IF cmd.help
       THEN /\ stdout' = <<HelpMsg>>
            /\ stderr' = <<>>
            /\ status' = 0
            /\ exitVia' = "SystemExit"
            /\ args' = NoArgs
            /\ pc' = "done"
       ELSE IF cmd.input = None
       THEN /\ stdout' = <<>>
            /\ stderr' = <<UsageMsg>>
            /\ status' = 2
            /\ exitVia' = "SystemExit"
            /\ args' = NoArgs
            /\ pc' = "done"
       ELSE /\ stdout' = <<>>
            /\ stderr' = <<>>
            /\ status' = 0
            /\ exitVia' = "none"
            /\ args' = [input |-> cmd.input, output |-> cmd.output,
                        verbose |-> cmd.verbose]
            /\ pc' = "validate"
    /\ UNCHANGED <<fs, diskFull, os_linesep>>

Start ==
    /\ pc = "idle"
    /\ \E cmd \in CommandLines : ParseArgs(cmd)
    /\ runs' = 1
    /\ fsPrev' = fs

(* The same command line is run again after the previous run has exited. *)
Rerun ==
    /\ pc = "done"
    /\ runs < MaxRuns
    /\ ParseArgs(argv)
    /\ runs' = runs + 1
    /\ fsPrev' = fs

Validate ==
    /\ pc = "validate"
    /\ IF ~exists(fs, args.input)
       THEN /\ stderr' = Append(stderr, NotFoundMsg(args.input))
            /\ status' = 1
            /\ exitVia' = "return"
            /\ pc' = "done"
            /\ UNCHANGED stdout
       ELSE /\ stdout' = IF args.verbose
                         THEN Append(stdout, ProcessingMsg(args.input))
                         ELSE stdout
            /\ pc' = "process"
            /\ UNCHANGED <<stderr, status, exitVia>>
    /\ UNCHANGED <<fs, diskFull, os_linesep, argv, args, result, runs, fs0, fsPrev,
                   started, opened, wrote>>

ProcessFile ==
    /\ pc = "process"
    /\ started' = TRUE
    /\ LET r == process_file(fs, args.input)
       IN  IF r.ok
           THEN /\ result' = r.value
                /\ pc' = "emit"
                /\ UNCHANGED <<stderr, status, exitVia>>
           ELSE /\ stderr' = stderr \o Handler(r.err).stderr
                /\ status' = Handler(r.err).status
                /\ exitVia' = Handler(r.err).via
                /\ pc' = "done"
                /\ UNCHANGED result
    /\ UNCHANGED <<fs, diskFull, os_linesep, argv, args, stdout, runs, fs0, fsPrev,
                   opened, wrote>>

EmitFileConfirmFirst ==
    /\ pc = "emit"
    /\ args.output # None
    /\ LET w == write_text(fs, diskFull, os_linesep, args.output, result)
       IN  /\ fs' = w.fs
           /\ opened' = w.opened
           /\ wrote' = w.ok
           /\ stdout' = IF args.verbose
                        THEN Append(stdout, WroteMsg(args.output))
                        ELSE stdout
           /\ IF w.ok
              THEN /\ status' = 0
                   /\ exitVia' = "return"
                   /\ pc' = "done"
                   /\ UNCHANGED stderr
              ELSE /\ stderr' = stderr \o Handler(w.err).stderr
                   /\ status' = Handler(w.err).status
                   /\ exitVia' = Handler(w.err).via
                   /\ pc' = "done"
    /\ UNCHANGED <<diskFull, os_linesep, argv, args, result, runs, fs0, fsPrev,
                   started>>

EmitFileToInput ==
    /\ pc = "emit"
    /\ args.output # None
    /\ LET w == write_text(fs, diskFull, os_linesep, args.input, result)
       IN  /\ fs' = w.fs
           /\ opened' = w.opened
           /\ wrote' = w.ok
           /\ IF w.ok
              THEN /\ IF args.verbose
                      THEN /\ pc' = "confirm"
                           /\ UNCHANGED <<status, exitVia>>
                      ELSE /\ status' = 0
                           /\ exitVia' = "return"
                           /\ pc' = "done"
                   /\ UNCHANGED stderr
              ELSE /\ stderr' = stderr \o Handler(w.err).stderr
                   /\ status' = Handler(w.err).status
                   /\ exitVia' = Handler(w.err).via
                   /\ pc' = "done"
    /\ UNCHANGED <<diskFull, os_linesep, argv, args, result, stdout, runs, fs0, fsPrev,
                   started>>

(* if args.output: args.output.write_text(result) *)
EmitFile ==
    /\ pc = "emit"
    /\ args.output # None
    /\ LET w == write_text(fs, diskFull, os_linesep, args.output, result)
       IN  /\ fs' = w.fs
           /\ opened' = w.opened
           /\ wrote' = w.ok
           /\ IF w.ok
              THEN /\ IF args.verbose
                      THEN /\ pc' = "confirm"
                           /\ UNCHANGED <<status, exitVia>>
                      ELSE /\ status' = 0
                           /\ exitVia' = "return"
                           /\ pc' = "done"
                   /\ UNCHANGED stderr
              ELSE /\ stderr' = stderr \o Handler(w.err).stderr
                   /\ status' = Handler(w.err).status
                   /\ exitVia' = Handler(w.err).via
                   /\ pc' = "done"
    /\ UNCHANGED <<diskFull, os_linesep, argv, args, result, stdout, runs, fs0, fsPrev,
                   started>>

(* if args.verbose: print(f"Wrote output to {args.output}"); return 0 *)
Confirm ==
    /\ pc = "confirm"
    /\ stdout' = Append(stdout, WroteMsg(args.output))
    /\ status' = 0
    /\ exitVia' = "return"
    /\ pc' = "done"
    /\ UNCHANGED <<fs, diskFull, os_linesep, argv, args, result, stderr, runs, fs0,
                   fsPrev, started, opened, wrote>>

EmitStdoutVerboseOnly ==
    /\ pc = "emit"
    /\ args.output = None
    /\ stdout' = IF args.verbose THEN Append(stdout, result) ELSE stdout
    /\ status' = 0
    /\ exitVia' = "return"
    /\ pc' = "done"
    /\ UNCHANGED <<fs, diskFull, os_linesep, argv, args, result, stderr, runs, fs0,
                   fsPrev, started, opened, wrote>>

(* else: print(result); return 0 *)
EmitStdout ==
    /\ pc = "emit"
    /\ args.output = None
    /\ stdout' = Append(stdout, result)
    /\ status' = 0
    /\ exitVia' = "return"
    /\ pc' = "done"
    /\ UNCHANGED <<fs, diskFull, os_linesep, argv, args, result, stderr, runs, fs0,
                   fsPrev, started, opened, wrote>>

Next ==
    \/ Start
    \/ Rerun
    \/ Validate
    \/ ProcessFile
    \/ EmitFile
    \/ Confirm
    \/ EmitStdout

Spec == Init /\ [][Next]_vars

----------------------------------------------------------------------------
(* Vocabulary of the properties *)

Done == pc = "done"
Parsed == args.input # None
Returned == Done /\ exitVia = "return"
ReadableFile(n) == n.kind = "file" /\ n.accessible
WritablePath(f, p) ==
    /\ f[p].kind = "missing" \/ ReadableFile(f[p])
    /\ ~diskFull
HasCR(s) == \E i \in 1..Len(s) : s[i] = CR

(* s from position i on, with every line ending (CR LF, CR or LF)         *)
(* replaced by sep.                                                        *)
RECURSIVE LineEndingsAs(_, _, _)
LineEndingsAs(s, i, sep) ==
    IF i > Len(s) THEN <<>>
    ELSE IF s[i] = CR /\ i < Len(s) /\ s[i + 1] = LF
         THEN sep \o LineEndingsAs(s, i + 2, sep)
    ELSE IF s[i] \in {CR, LF}
         THEN sep \o LineEndingsAs(s, i + 1, sep)
    ELSE <<s[i]>> \o LineEndingsAs(s, i + 1, sep)

Emitted ==
    /\ result # <<>>
    /\ IF args.output # None
       THEN /\ wrote
            /\ fs[args.output] =
                   File(LineEndingsAs(result, 1, os_linesep), TRUE)
       ELSE Contains(stdout, result)

----------------------------------------------------------------------------
(* C1 *)

(* C1 as stated: after a second run with the same arguments, whatever the *)
(* two paths, the file at the --output path is as the first run left it.  *)
C1_AnyPaths ==
    (Done /\ runs >= 2 /\ argv.output # None)
        => fs[argv.output] = fsPrev[argv.output]

(* C1 amended: when the --output path differs from the input path, a      *)
(* second run with the same arguments leaves the file at the --output     *)
(* path exactly as the first run left it.                                 *)
C1_Idempotent ==
    (Done /\ runs >= 2 /\ argv.output # None /\ argv.input # argv.output)
        => fs[argv.output] = fsPrev[argv.output]

C1_Witness ==
    /\ Done /\ runs >= 2 /\ Returned /\ status = 0 /\ wrote
    /\ argv.input # argv.output
    /\ fs[argv.output] = fsPrev[argv.output]

----------------------------------------------------------------------------
(* C2 *)

(* C2 as stated: when a run with --output ends with status 0, the output  *)
(* file holds "Processed: " followed by the content of the input file.    *)
C2_ExactContent ==
    (Returned /\ status = 0 /\ args.output # None)
        => /\ fs[args.output].kind = "file"
           /\ fs[args.input].kind = "file"
           /\ fs[args.output].content
                  = <<Prefix>> \o fs[args.input].content

(* C2 amended: when main returns 0 with --output, the output file holds   *)
(* "Processed: " followed by the content the input file had when the run  *)
(* started, with every line ending (CR LF, CR or LF) replaced by the      *)
(* platform's line separator.                                             *)
C2_RoundTrip ==
    (Returned /\ status = 0 /\ args.output # None)
        => /\ fs[args.output].kind = "file"
           /\ fs0[args.input].kind = "file"
           /\ fs[args.output].content
                  = <<Prefix>> \o LineEndingsAs(fs0[args.input].content, 1,
                                               os_linesep)

C2_Witness ==
    /\ Returned /\ status = 0 /\ args.output # None
    /\ HasCR(fs0[args.input].content)
    /\ fs[args.output].content # <<Prefix>> \o fs0[args.input].content

----------------------------------------------------------------------------
(* C3 *)

(* C3: when the input path does not exist, main prints nothing to stdout  *)
(* and changes no file, and it ends by returning 1 with the one stderr    *)
(* line "Error: Input file '<path>' not found", for any --output and      *)
(* --verbose.                                                             *)
C3_MissingInput ==
    (Parsed /\ fs0[args.input].kind = "missing")
        => /\ stdout = <<>>
           /\ fs = fs0
           /\ ~started
           /\ Done => /\ status = 1
                      /\ exitVia = "return"
                      /\ stderr = <<NotFoundMsg(args.input)>>

C3_Witness ==
    /\ Done /\ Parsed /\ fs0[args.input].kind = "missing"
    /\ args.verbose /\ args.output # None
    /\ fs[args.output].kind = "file"
    /\ stderr = <<NotFoundMsg(args.input)>>

----------------------------------------------------------------------------
(* C4 *)

(* C4 as stated: a run that returns 1 has printed nothing to stdout and   *)
(* has left the file at the output path with the content it had before.   *)
C4_NothingAtAll ==
    (Returned /\ status = 1)
        => /\ stdout = <<>>
           /\ args.output # None => fs[args.output] = fs0[args.output]

(* C4 amended: a run that returns 1 has printed neither the result nor    *)
(* the confirmation line to stdout (with --verbose the "Processing ..."   *)
(* line is already there once the input exists), and no file is changed,  *)
(* except that a write failing after write_text opened the output file    *)
(* leaves that file truncated to empty.                                   *)
C4_FailureEffects ==
    (Returned /\ status = 1)
        => /\ stdout = IF args.verbose /\ fs0[args.input].kind # "missing"
                       THEN <<ProcessingMsg(args.input)>> ELSE <<>>
           /\ \/ fs = fs0
              \/ /\ opened /\ args.output # None
                 /\ fs = [fs0 EXCEPT ![args.output] = File(<<>>, TRUE)]

C4_Witness ==
    /\ Returned /\ status = 1 /\ opened /\ args.verbose
    /\ fs0[args.output].kind = "file"
    /\ fs0[args.output].content # <<>>
    /\ fs[args.output].content = <<>>

----------------------------------------------------------------------------
(* C5 *)

(* C5 as stated: every invocation ends with status 0 or 1; 0 exactly when *)
(* the result was fully emitted; every failure gives 1, reported on       *)
(* stderr with the prefix "Error: ", and leaves main by return.           *)
C5_EveryInvocation ==
    Done => /\ status \in {0, 1}
            /\ status = 0 <=> Emitted
            /\ status = 1 => /\ exitVia = "return"
                             /\ Len(stderr) = 1
                             /\ Head(stderr[1]) = "Error: "

(* C5 amended: every invocation whose command line argparse accepts (an   *)
(* input path given, no -h) ends with status 0 or 1; 0 exactly when the   *)
(* result was fully emitted; every failure gives 1, reported on stderr    *)
(* with the prefix "Error: ", and leaves main by return.                  *)
C5_ExitStatus ==
    (Done /\ Parsed)
        => /\ status \in {0, 1}
           /\ exitVia = "return"
           /\ status = 0 <=> Emitted
           /\ status = 0 => stderr = <<>>
           /\ status = 1 => /\ Len(stderr) = 1
                            /\ Head(stderr[1]) = "Error: "

C5_Witness ==
    /\ Done /\ Parsed /\ started /\ status = 1 /\ exitVia = "return"
    /\ Head(stderr[1]) = "Error: "

----------------------------------------------------------------------------
(* C6 *)

(* C6: process_file is started only when the input path is an existing    *)
(* file, and every input path that is not an existing file (missing, or a *)
(* directory) ends with the 'not found' message and status 1.             *)
C6_OnlyFilesProcessed ==
    /\ started => fs0[args.input].kind = "file"
    /\ (Done /\ Parsed /\ fs0[args.input].kind # "file")
           => /\ status = 1
              /\ stderr = <<NotFoundMsg(args.input)>>

----------------------------------------------------------------------------
(* C7 *)

(* C7 as stated: with a readable input file and a writable --output path, *)
(* main returns 0, the output file holds "Processed: " followed by the    *)
(* content the input file had at the start, and without --verbose stdout  *)
(* is empty.                                                              *)
C7_ExactOutput ==
    (Done /\ Parsed /\ args.output # None /\ ReadableFile(fs0[args.input])
          /\ WritablePath(fs0, args.output))
        => /\ status = 0
           /\ fs[args.output]
                  = File(<<Prefix>> \o fs0[args.input].content, TRUE)
           /\ ~args.verbose => stdout = <<>>

(* C7 amended: with a readable input file and a writable --output path,   *)
(* main returns 0, the output file is created or fully overwritten with   *)
(* "Processed: " followed by the content the input file had at the start  *)
(* with every line ending (CR LF, CR or LF) replaced by the platform's    *)
(* line separator, and without --verbose stdout is empty.                 *)
C7_OutputFile ==
    (Done /\ Parsed /\ args.output # None /\ ReadableFile(fs0[args.input])
          /\ WritablePath(fs0, args.output))
        => /\ status = 0
           /\ exitVia = "return"
           /\ fs[args.output]
                  = File(<<Prefix>> \o LineEndingsAs(
                             fs0[args.input].content, 1, os_linesep), TRUE)
           /\ ~args.verbose => stdout = <<>>

C7_Witness ==
    /\ Done /\ Parsed /\ args.output # None /\ ReadableFile(fs0[args.input])
    /\ WritablePath(fs0, args.output)
    /\ ~args.verbose /\ stdout = <<>> /\ status = 0
    /\ args.input # args.output
    /\ fs0[args.output].kind = "file" /\ fs0[args.output].content # <<>>
    /\ fs[args.output].content = <<Prefix>> \o fs0[args.input].content

----------------------------------------------------------------------------
(* C8 *)

(* C8 as stated: with a readable input file of content c and no --output, *)
(* main prints "Processed: " followed by c and returns 0.                 *)
C8_ExactStdout ==
    (Done /\ Parsed /\ args.output = None /\ ReadableFile(fs0[args.input]))
        => /\ status = 0
           /\ Contains(stdout, <<Prefix>> \o fs0[args.input].content)

(* C8 amended: with a readable input file of content c and no --output,   *)
(* for either value of --verbose, main prints "Processed: " followed by c *)
(* with every line ending (CR LF, CR or LF) turned into LF, as the last   *)
(* line of stdout, and returns 0.                                         *)
C8_Stdout ==
    (Done /\ Parsed /\ args.output = None /\ ReadableFile(fs0[args.input]))
        => /\ status = 0
           /\ exitVia = "return"
           /\ stdout # <<>>
           /\ stdout[Len(stdout)]
                  = <<Prefix>> \o LineEndingsAs(fs0[args.input].content, 1,
                                               <<LF>>)

C8_Witness ==
    /\ Done /\ Parsed /\ args.output = None /\ ReadableFile(fs0[args.input])
    /\ ~args.verbose /\ status = 0
    /\ HasCR(fs0[args.input].content)
    /\ Len(stdout) = 1

----------------------------------------------------------------------------
(* C9 *)

Confirmed == \E p \in Paths : Contains(stdout, WroteMsg(p))

C9_State ==
    /\ \A p \in Paths :
           Contains(stdout, WroteMsg(p))
               => p = args.output /\ args.verbose /\ wrote
    /\ (Returned /\ status = 0 /\ args.verbose /\ args.output # None)
           => Contains(stdout, WroteMsg(args.output))

C9_Step ==
    (~Confirmed /\ Confirmed')
        => /\ wrote
           /\ fs' = fs
           /\ fs[args.output] =
                  File(LineEndingsAs(result, 1, os_linesep), TRUE)

(* C9: with --verbose and --output, every successful run has printed the  *)
(* confirmation naming the output path; the confirmation is printed only  *)
(* by a step that starts after the write has completed, with the result   *)
(* already in the output file; a run whose write failed never prints it.  *)
C9_ConfirmAfterWrite == [](C9_State) /\ [][C9_Step]_vars

C9_Witness ==
    /\ Returned /\ status = 0 /\ wrote
    /\ stdout = <<ProcessingMsg(args.input), WroteMsg(args.output)>>

----------------------------------------------------------------------------
(* C10 *)

(* C10: a run changes no file but the one at the --output path, and that  *)
(* one only once write_text has opened it; without --output, or when the  *)
(* run fails before the emit step, the file system is as it was at the    *)
(* start; the input file is unchanged when the output path differs from   *)
(* the input path.                                                        *)
C10_Frame ==
    /\ \A p \in Paths :
           fs[p] # fs0[p] => Parsed /\ p = args.output /\ opened
    /\ args.output = None => fs = fs0
    /\ ~opened => fs = fs0
    /\ (Parsed /\ args.input # args.output)
           => fs[args.input] = fs0[args.input]

C10_Witness ==
    /\ Returned /\ status = 0 /\ args.output # None
    /\ args.input # args.output
    /\ fs[args.output] # fs0[args.output]
    /\ fs[args.input] = fs0[args.input]
====
